---- MODULE Spec2Model ----
(***************************************************************************)
(* Model of gpt_researcher/retrievers/searx/searx.py: the SearxSearch      *)
(* retriever.  An adapter is constructed from the process environment      *)
(* (SEARX_URL, SEARX_AUTH) and search() issues one GET and maps the JSON   *)
(* answer to a list of {href, body}.                                       *)
(*                                                                         *)
(* Text is modelled as it is processed: a credential is a sequence of      *)
(* character codes, a decoded credential a sequence of bytes, a URL a      *)
(* sequence of tokens ("http:", "/", "?", "h", "search").                  *)
(***************************************************************************)
EXTENDS Integers, Sequences, FiniteSets, TLC

(***************************************************************************)
(* Bounds of the model.                                                    *)
(***************************************************************************)
MaxUrlLen  == 2    \* tokens of SEARX_URL after the optional scheme
MaxTextLen == 2    \* characters of a 'user:password' text
MaxEntries == 2    \* length of the upstream results array
MaxResults == 2    \* largest max_results argument
MaxCalls   == 2    \* search calls in one behaviour

(***************************************************************************)
(* Python values.                                                          *)
(***************************************************************************)
PyNone    == [t |-> "none"]
PyStr(s)  == [t |-> "str", v |-> s]
PyList(a) == [t |-> "list", a |-> a]
Absent    == [t |-> "absent"]          \* a key a dict does not have

\* bool(x) for the values the code tests: None and "" are falsy
Truthy(x) == x.t # "none" /\ ~(x.t = "str" /\ x.v = <<>>) /\ ~(x.t = "list" /\ x.a = <<>>)

\* dict.get(key, default) on a record whose missing keys hold Absent
DictGet(d, key, default) == IF d[key] = Absent THEN default ELSE d[key]

\* s[m-1:n] in Python's terms: the items m..n of s that exist
Sub(s, m, n) ==
  IF m > n \/ m > Len(s) THEN <<>>
  ELSE SubSeq(s, m, IF n > Len(s) THEN Len(s) ELSE n)

\* seq[:n] taking one item too many
SliceInclusive(seq, n) == Sub(seq, 1, n + 1)

\* seq[:n] for n >= 0 and for negative n
Slice(seq, n) ==
  LET stop == IF n < 0 THEN (IF Len(seq) + n < 0 THEN 0 ELSE Len(seq) + n)
              ELSE (IF n > Len(seq) THEN Len(seq) ELSE n)
  IN  Sub(seq, 1, stop)

(***************************************************************************)
(* Character codes used by the code.                                       *)
(***************************************************************************)
Colon == 58
Pad   == 61

(***************************************************************************)
(* base64: the encoder (what the operator of the instance runs to produce  *)
(* SEARX_AUTH) and binascii.a2b_base64 in its default, non-strict mode     *)
(* (what base64.b64decode runs).                                           *)
(***************************************************************************)
\* code of the base64 digit with value v
B64Char(v) ==
  IF v < 26 THEN 65 + v
  ELSE IF v < 52 THEN 97 + (v - 26)
  ELSE IF v < 62 THEN 48 + (v - 52)
  ELSE IF v = 62 THEN 43 ELSE 47

\* value of the base64 digit with code c, 64 for a character outside the alphabet
B64Value(c) ==
  IF c >= 65 /\ c <= 90 THEN c - 65
  ELSE IF c >= 97 /\ c <= 122 THEN c - 97 + 26
  ELSE IF c >= 48 /\ c <= 57 THEN c - 48 + 52
  ELSE IF c = 43 THEN 62
  ELSE IF c = 47 THEN 63
  ELSE 64

RECURSIVE B64Encode(_)
B64Encode(bytes) ==
  IF Len(bytes) = 0 THEN <<>>
  ELSE IF Len(bytes) = 1 THEN
    << B64Char(bytes[1] \div 4), B64Char((bytes[1] % 4) * 16), Pad, Pad >>
  ELSE IF Len(bytes) = 2 THEN
    << B64Char(bytes[1] \div 4),
       B64Char((bytes[1] % 4) * 16 + (bytes[2] \div 16)),
       B64Char((bytes[2] % 16) * 4), Pad >>
  ELSE
    << B64Char(bytes[1] \div 4),
       B64Char((bytes[1] % 4) * 16 + (bytes[2] \div 16)),
       B64Char((bytes[2] % 16) * 4 + (bytes[3] \div 64)),
       B64Char(bytes[3] % 64) >> \o B64Encode(Sub(bytes, 4, Len(bytes)))

Raised(cls)  == [ok |-> FALSE, exc |-> cls]
Returned(v)  == [ok |-> TRUE, v |-> v]

\* the loop of a2b_base64: characters outside the alphabet are skipped, a
\* completed padding ends the input, leftover digits are an error
RECURSIVE A2bBase64(_, _, _, _, _, _)
A2bBase64(s, i, quad_pos, leftchar, pads, out) ==
  IF i > Len(s) THEN
    IF quad_pos # 0 THEN Raised("binascii.Error") ELSE Returned(out)
  ELSE IF s[i] = Pad THEN
    IF quad_pos >= 2 /\ quad_pos + pads + 1 >= 4 THEN Returned(out)
    ELSE A2bBase64(s, i + 1, quad_pos, leftchar,
                   IF quad_pos >= 2 THEN pads + 1 ELSE pads, out)
  ELSE IF B64Value(s[i]) >= 64 THEN
    A2bBase64(s, i + 1, quad_pos, leftchar, pads, out)
  ELSE
    LET d == B64Value(s[i]) IN
    CASE quad_pos = 0 -> A2bBase64(s, i + 1, 1, d, 0, out)
      [] quad_pos = 1 -> A2bBase64(s, i + 1, 2, d % 16, 0,
                                   Append(out, leftchar * 4 + (d \div 16)))
      [] quad_pos = 2 -> A2bBase64(s, i + 1, 3, d % 4, 0,
                                   Append(out, leftchar * 16 + (d \div 4)))
      [] quad_pos = 3 -> A2bBase64(s, i + 1, 0, 0, 0,
                                   Append(out, leftchar * 64 + d))

\* base64.b64decode(str): the text must be ASCII, then a2b_base64
B64Decode(s) ==
  IF \E i \in 1..Len(s) : s[i] > 127 THEN Raised("ValueError")
  ELSE A2bBase64(s, 1, 0, 0, 0, <<>>)

(***************************************************************************)
(* UTF-8.                                                                  *)
(***************************************************************************)
IsCont(b) == b >= 128 /\ b <= 191

RECURSIVE Utf8Encode(_)
Utf8Encode(text) ==
  IF text = <<>> THEN <<>>
  ELSE LET c == Head(text) IN
    (IF c < 128 THEN << c >>
     ELSE IF c < 2048 THEN << 192 + (c \div 64), 128 + (c % 64) >>
     ELSE << 224 + (c \div 4096), 128 + ((c \div 64) % 64), 128 + (c % 64) >>)
    \o Utf8Encode(Tail(text))

\* bytes.decode("utf-8"): the code points, or UnicodeDecodeError
RECURSIVE Utf8Decode(_, _)
Utf8Decode(bytes, out) ==
  IF bytes = <<>> THEN Returned(out)
  ELSE LET b == Head(bytes)
           n == Len(bytes)
       IN
    IF b < 128 THEN Utf8Decode(Tail(bytes), Append(out, b))
    ELSE IF b >= 194 /\ b <= 223 THEN
      IF n >= 2 /\ IsCont(bytes[2])
      THEN Utf8Decode(Sub(bytes, 3, n),
                      Append(out, (b - 192) * 64 + (bytes[2] - 128)))
      ELSE Raised("UnicodeDecodeError")
    ELSE IF b >= 224 /\ b <= 239 THEN
      IF /\ n >= 3 /\ IsCont(bytes[2]) /\ IsCont(bytes[3])
         /\ (b = 224 => bytes[2] >= 160)
         /\ (b = 237 => bytes[2] <= 159)
      THEN Utf8Decode(Sub(bytes, 4, n),
                      Append(out, (b - 224) * 4096 + (bytes[2] - 128) * 64
                                  + (bytes[3] - 128)))
      ELSE Raised("UnicodeDecodeError")
    ELSE IF b >= 240 /\ b <= 244 THEN
      IF /\ n >= 4 /\ IsCont(bytes[2]) /\ IsCont(bytes[3]) /\ IsCont(bytes[4])
         /\ (b = 240 => bytes[2] >= 144)
         /\ (b = 244 => bytes[2] <= 143)
      THEN Utf8Decode(Sub(bytes, 5, n),
                      Append(out, (b - 240) * 262144 + (bytes[2] - 128) * 4096
                                  + (bytes[3] - 128) * 64 + (bytes[4] - 128)))
      ELSE Raised("UnicodeDecodeError")
    ELSE Raised("UnicodeDecodeError")

\* index of the last colon of a text, 0 when it has none
RECURSIVE LastColon(_, _)
LastColon(text, i) ==
  IF i > Len(text) THEN 0
  ELSE LET k == LastColon(text, i + 1) IN
       IF k # 0 THEN k ELSE IF text[i] = Colon THEN i ELSE 0

\* index of the first colon of a text, 0 when it has none
RECURSIVE FirstColon(_, _)
FirstColon(text, i) ==
  IF i > Len(text) THEN 0
  ELSE IF text[i] = Colon THEN i
  ELSE FirstColon(text, i + 1)

\* a split that gives a text without a colon an empty password
SplitUserPasswordLenient(text) ==
  LET k == FirstColon(text, 1) IN
  IF k = 0 THEN Returned([username |-> text, password |-> <<>>])
  ELSE Returned([username |-> Sub(text, 1, k - 1),
                 password |-> Sub(text, k + 1, Len(text))])

\* username, password = text.split(":", 1): a text without a colon splits
\* into one part and the unpacking raises ValueError
SplitUserPassword(text) ==
  LET k == FirstColon(text, 1) IN
  IF k = 0 THEN Raised("ValueError")
  ELSE Returned([username |-> Sub(text, 1, k - 1),
                 password |-> Sub(text, k + 1, Len(text))])

\* the inner try block of search: the auth tuple, or the exception raised
DecodeAuth(auth) ==
  LET raw == B64Decode(auth) IN
  IF ~raw.ok THEN raw
  ELSE LET text == Utf8Decode(raw.v, <<>>) IN
       IF ~text.ok THEN text
       ELSE SplitUserPassword(text.v)

(***************************************************************************)
(* urllib.parse for URLs made of the tokens "http:", "/", "?", "h": the    *)
(* scheme is "" or "http" (both are in uses_relative and uses_netloc), no  *)
(* token is a "." or ".." segment, a ";" or a "#".                         *)
(***************************************************************************)
\* index of the first token of s at or after position i that is in set, Len(s)+1 if none
RECURSIVE Find(_, _, _)
Find(s, set, i) ==
  IF i > Len(s) THEN Len(s) + 1
  ELSE IF s[i] \in set THEN i
  ELSE Find(s, set, i + 1)

\* urlsplit(url): scheme, netloc, path, query
UrlSplit(url) ==
  LET hasScheme == url # <<>> /\ url[1] = "http:"
      scheme    == IF hasScheme THEN "http" ELSE ""
      rest      == IF hasScheme THEN Tail(url) ELSE url
      hasNetloc == Len(rest) >= 2 /\ rest[1] = "/" /\ rest[2] = "/"
      delim     == Find(rest, {"/", "?"}, 3)
      netloc    == IF hasNetloc THEN Sub(rest, 3, delim - 1) ELSE <<>>
      rest2     == IF hasNetloc THEN Sub(rest, delim, Len(rest)) ELSE rest
      q         == Find(rest2, {"?"}, 1)
  IN  [scheme |-> scheme, netloc |-> netloc,
       path |-> Sub(rest2, 1, q - 1),
       query |-> Sub(rest2, q + 1, Len(rest2))]

\* urlunsplit((scheme, netloc, path, query, ""))
UrlUnsplit(scheme, netloc, path, query) ==
  LET u1 == IF netloc # <<>> \/ (scheme # "" /\ Sub(path, 1, 2) # <<"/", "/">>)
            THEN <<"/", "/">> \o netloc
                 \o (IF path # <<>> /\ path[1] # "/" THEN <<"/">> ELSE <<>>) \o path
            ELSE path
      u2 == IF scheme # "" THEN <<"http:">> \o u1 ELSE u1
  IN  IF query # <<>> THEN u2 \o <<"?">> \o query ELSE u2

\* path.split("/")
RECURSIVE SplitSlash(_)
SplitSlash(path) ==
  LET k == Find(path, {"/"}, 1) IN
  IF k > Len(path) THEN << path >>
  ELSE << Sub(path, 1, k - 1) >> \o SplitSlash(Sub(path, k + 1, Len(path)))

\* "/".join(segments)
RECURSIVE JoinSlash(_)
JoinSlash(segments) ==
  IF segments = <<>> THEN <<>>
  ELSE IF Len(segments) = 1 THEN segments[1]
  ELSE segments[1] \o <<"/">> \o JoinSlash(Tail(segments))

\* segments[1:-1] = filter(None, segments[1:-1])
DropEmptyInner(segments) ==
  IF Len(segments) <= 2 THEN segments
  ELSE << segments[1] >>
       \o SelectSeq(Sub(segments, 2, Len(segments) - 1), LAMBDA g : g # <<>>)
       \o << segments[Len(segments)] >>

\* urljoin(base, url)
UrlJoin(base, url) ==
  IF base = <<>> THEN url
  ELSE IF url = <<>> THEN base
  ELSE
    LET b == UrlSplit(base)
        r == UrlSplit(url)
        scheme == IF r.scheme = "" THEN b.scheme ELSE r.scheme
    IN
    IF scheme # b.scheme THEN url
    ELSE IF r.netloc # <<>> THEN UrlUnsplit(scheme, r.netloc, r.path, r.query)
    ELSE IF r.path = <<>> THEN
      UrlUnsplit(scheme, b.netloc, b.path,
                 IF r.query = <<>> THEN b.query ELSE r.query)
    ELSE
      LET parts0     == SplitSlash(b.path)
          base_parts == IF parts0[Len(parts0)] # <<>>
                        THEN Sub(parts0, 1, Len(parts0) - 1) ELSE parts0
          segments   == IF r.path[1] = "/" THEN SplitSlash(r.path)
                        ELSE DropEmptyInner(base_parts \o SplitSlash(r.path))
          joined     == JoinSlash(segments)
      IN  UrlUnsplit(scheme, b.netloc,
                     IF joined = <<>> THEN <<"/">> ELSE joined, r.query)

(***************************************************************************)
(* Input sets.                                                             *)
(***************************************************************************)
RECURSIVE SeqsUpTo(_, _)
SeqsUpTo(S, n) ==
  IF n = 0 THEN { <<>> }
  ELSE LET P == SeqsUpTo(S, n - 1) IN P \cup { Append(p, x) : p \in P, x \in S }

\* values of SEARX_URL: PyNone is the unset variable; the others are a
\* relative reference, "http:" or "http://h" followed by a few tokens
UrlValues ==
  LET tails == SeqsUpTo({"h", "/", "?"}, MaxUrlLen) IN
  {PyNone} \cup { PyStr(u) : u \in tails }
           \cup { PyStr(<<"http:">> \o u) : u \in tails }
           \cup { PyStr(<<"http:", "/", "/", "h">> \o u) : u \in tails }

HttpH == PyStr(<<"http:", "/", "/", "h">>)         \* http://h

\* 'user:password' texts over the characters a, ":" and e-acute
Texts == SeqsUpTo({97, Colon, 233}, MaxTextLen)

\* values of SEARX_AUTH: unset, the encodings of the texts, the same with a
\* character outside the alphabet added or the last character lost, bytes
\* that are not UTF-8, a non-ASCII text
AuthValues ==
  LET enc == { B64Encode(Utf8Encode(t)) : t \in Texts }
            \cup { B64Encode(<<255>>), B64Encode(<<Colon, 255>>) }
  IN  {PyNone}
      \cup { PyStr(e) : e \in enc }
      \cup { PyStr(Append(e, 33)) : e \in enc }
      \cup { PyStr(Sub(e, 1, Len(e) - 1)) : e \in enc }
      \cup { PyStr(<<233>>), PyStr(<<33, 33, 33>>) }

AliceSecret == PyStr(B64Encode(Utf8Encode(<<97, Colon, 97>>)))   \* base64("a:a")

\* JSON values as json.loads builds them
JDict(m)  == [t |-> "dict", m |-> m]
JText(x)  == [t |-> "str", v |-> x]
JEntry(url, content) == JDict([url |-> url, content |-> content])

\* the entries of a results array: objects with each of url and content a
\* text, null or missing, and one entry that is not an object
Entries ==
  { JEntry(JText("https://a"), JText("A")),
    JEntry(Absent, Absent),
    JEntry(PyNone, PyNone),
    JText("junk") }

\* response bodies: not JSON, or a JSON document
Bodies ==
  { [json |-> FALSE] }
  \cup { [json |-> TRUE, value |-> v] :
           v \in { PyList(<<>>), JDict([results |-> Absent]), JDict([results |-> PyNone]) }
                 \cup { JDict([results |-> PyList(r)]) : r \in SeqsUpTo(Entries, MaxEntries) } }

TwoHits == [json |-> TRUE, value |->
             JDict([results |-> PyList(<< JEntry(JText("https://a"), JText("A")),
                                         JEntry(JText("https://b"), JText("B")) >>)])]

\* what the GET meets: a network failure or a response
Failure == [net |-> "fail", status |-> 0, body |-> [json |-> FALSE]]
Response(status, body) == [net |-> "ok", status |-> status, body |-> body]

\* the classes of the exception response.json() raises on a body that is not
\* JSON: requests.exceptions.JSONDecodeError since requests 2.27,
\* json.JSONDecodeError before
JsonErrors ==
  { {"RequestException", "JSONDecodeError", "ValueError"},
    {"JSONDecodeError", "ValueError"} }

NewRequests == {"RequestException", "JSONDecodeError", "ValueError"}

World(url, auth, server, jsonError) ==
  [SEARX_URL |-> url, SEARX_AUTH |-> auth, server |-> server, jsonError |-> jsonError]

\* every SEARX_URL, and the unset one against set and unset SEARX_AUTH
UrlWorlds ==
  { World(u, PyNone, Response(200, TwoHits), NewRequests) : u \in UrlValues }
  \cup { World(PyNone, a, Response(200, TwoHits), NewRequests) :
           a \in {AliceSecret, PyStr(<<>>), PyStr(<<33, 33, 33>>)} }

\* every SEARX_AUTH
AuthWorlds ==
  { World(HttpH, a, Response(200, TwoHits), NewRequests) : a \in AuthValues }
  \cup { World(HttpH, PyStr(<<>>), Failure, NewRequests) }

\* every answer of the server: each body under status 200, the body that is
\* not JSON under each version of requests, other statuses with and without
\* a JSON body, the network failure
ServerWorlds ==
  { World(HttpH, PyNone, Response(200, b), NewRequests) : b \in Bodies }
  \cup { World(HttpH, PyNone, Response(200, [json |-> FALSE]), j) : j \in JsonErrors }
  \cup { World(HttpH, PyNone, Response(st, TwoHits), NewRequests) :
           st \in {200, 204, 304, 404, 500} }
  \cup { World(HttpH, PyNone, Response(st, [json |-> FALSE]), j) :
           st \in {404, 500}, j \in JsonErrors }
  \cup { World(HttpH, a, Failure, NewRequests) : a \in {PyNone, AliceSecret} }

Queries == {"q1", "q2"}
DomainFilters == {PyNone, PyList(<<>>), PyList(<<"example.com">>)}
Instances == {1, 2}

(***************************************************************************)
(* State.                                                                  *)
(***************************************************************************)
VARIABLES
  world,      \* os.environ and the SearxNG server the process talks to
  adapters,   \* the SearxSearch objects, by identity
  lastCall,   \* the last search call: its requests and how it ended
  nCalls,     \* search calls made
  nRequests   \* GET requests that reached the network

vars == << world, adapters, lastCall, nCalls, nRequests >>

Unconstructed == [state |-> "unconstructed"]
NoCall == [inst |-> 0, max_results |-> 0, requests |-> <<>>, result |-> Raised("no call")]

\* the messages of the exceptions the code raises
ConfigurationError    == "SearxNG URL not found"
CredentialFormatError == "Invalid SEARX_AUTH format"
TransportError        == "Error querying SearxNG"
ResponseFormatError   == "Error parsing SearxNG response"

(***************************************************************************)
(* __init__                                                                *)
(***************************************************************************)
\* a lookup that falls back to a default instance when SEARX_URL is unset
get_searxng_url_default(environ) ==
  IF environ.SEARX_URL = PyNone THEN Returned(<<"http:", "/", "/", "h", "/">>)
  ELSE LET base_url == environ.SEARX_URL.v IN
       IF base_url # <<>> /\ base_url[Len(base_url)] = "/"
       THEN Returned(base_url)
       ELSE Returned(base_url \o <<"/">>)

\* a lookup that appends the "/" without looking at the end of the value
get_searxng_url_append(environ) ==
  IF environ.SEARX_URL = PyNone THEN Raised(ConfigurationError)
  ELSE Returned(environ.SEARX_URL.v \o <<"/">>)

\* os.environ["SEARX_URL"] with the trailing "/" added when missing; KeyError
\* becomes the configuration exception
get_searxng_url(environ) ==
  IF environ.SEARX_URL = PyNone THEN Raised(ConfigurationError)
  ELSE LET base_url == environ.SEARX_URL.v IN
       IF base_url # <<>> /\ base_url[Len(base_url)] = "/"
       THEN Returned(base_url)
       ELSE Returned(base_url \o <<"/">>)

\* os.environ.get("SEARX_AUTH")
get_searxng_auth(environ) == environ.SEARX_AUTH

\* SearxSearch(query, query_domains): the object, or the exception raised
NewSearxSearch(environ, query, query_domains) ==
  LET url == get_searxng_url(environ) IN
  IF ~url.ok THEN [state |-> "failed", error |-> url.exc]
  ELSE [state |-> "ready",
        query |-> query,
        query_domains |-> IF Truthy(query_domains) THEN query_domains ELSE PyNone,
        base_url |-> url.v,
        auth |-> get_searxng_auth(environ)]

Construct(i, query, query_domains) ==
  /\ adapters[i] = Unconstructed
  /\ adapters' = [adapters EXCEPT ![i] = NewSearxSearch(world, query, query_domains)]
  /\ UNCHANGED << world, lastCall, nCalls, nRequests >>

(***************************************************************************)
(* search                                                                  *)
(***************************************************************************)
\* a request that passes the domain filter on
BuildRequestWithDomains(self, auth_tuple) ==
  [method  |-> "GET",
   url     |-> UrlJoin(self.base_url, <<"search">>),
   params  |-> { <<"q", self.query>>, <<"format", "json">> }
               \cup (IF self.query_domains = PyNone THEN {}
                     ELSE { <<"domains", "example.com">> }),
   headers |-> { <<"Accept", "application/json">> },
   auth    |-> auth_tuple]

\* the request search builds
BuildRequest(self, auth_tuple) ==
  [method  |-> "GET",
   url     |-> UrlJoin(self.base_url, <<"search">>),
   params  |-> { <<"q", self.query>>, <<"format", "json">> },
   headers |-> { <<"Accept", "application/json">> },
   auth    |-> auth_tuple]

\* a status check that lets the client errors through
raise_for_status_5xx(status) == status >= 500 /\ status < 600

\* response.raise_for_status(): HTTPError for a 4xx or 5xx status
raise_for_status(status) == status >= 400 /\ status < 600

\* the loop over results.get("results", [])[:max_results]
RECURSIVE Normalize(_, _)
Normalize(entries, search_response) ==
  IF entries = <<>> THEN Returned(search_response)
  ELSE LET result == Head(entries) IN
    IF result.t # "dict" THEN Raised({"AttributeError"})
    ELSE Normalize(Tail(entries),
                   Append(search_response,
                          [href |-> DictGet(result.m, "url", JText("")),
                           body |-> DictGet(result.m, "content", JText(""))]))

\* lines 88-97: response.json() and the mapping of its results
ParseAndMap(body, jsonError, max_results) ==
  IF ~body.json THEN Raised(jsonError)
  ELSE LET results == body.value IN
    IF results.t # "dict" THEN Raised({"AttributeError"})
    ELSE LET list == DictGet(results.m, "results", PyList(<<>>)) IN
      IF list.t # "list" THEN Raised({"TypeError"})
      ELSE Normalize(Slice(list.a, max_results), <<>>)

\* the except clauses of search, in their order; an exception that matches
\* none leaves search as it is
Handle(raised) ==
  IF "RequestException" \in raised.exc THEN Raised(TransportError)
  ELSE IF "JSONDecodeError" \in raised.exc THEN Raised(ResponseFormatError)
  ELSE Raised(CHOOSE c \in raised.exc : TRUE)

\* lines 84-97 against the server: the result of the try block
SendAndMap(server, jsonError, max_results) ==
  IF server.net = "fail" THEN Raised({"RequestException"})
  ELSE IF raise_for_status(server.status) THEN Raised({"RequestException"})
  ELSE ParseAndMap(server.body, jsonError, max_results)

\* a search that sends the request a second time when the first attempt fails
RunSearchRetry(self, w, max_results) ==
  LET decoded == IF Truthy(self.auth) THEN DecodeAuth(self.auth.v)
                 ELSE Returned(PyNone)
  IN
  IF ~decoded.ok THEN [requests |-> <<>>, result |-> Raised(CredentialFormatError)]
  ELSE LET got == SendAndMap(w.server, w.jsonError, max_results) IN
       [requests |-> IF got.ok THEN << BuildRequest(self, decoded.v) >>
                     ELSE << BuildRequest(self, decoded.v), BuildRequest(self, decoded.v) >>,
        result   |-> IF got.ok THEN got ELSE Handle(got)]

\* search(max_results): the requests it sends and its result
RunSearch(self, w, max_results) ==
  LET decoded == IF Truthy(self.auth) THEN DecodeAuth(self.auth.v)
                 ELSE Returned(PyNone)
  IN
  IF ~decoded.ok THEN [requests |-> <<>>, result |-> Raised(CredentialFormatError)]
  ELSE LET got == SendAndMap(w.server, w.jsonError, max_results) IN
       [requests |-> << BuildRequest(self, decoded.v) >>,
        result   |-> IF got.ok THEN got ELSE Handle(got)]

Search(i, max_results) ==
  /\ adapters[i].state = "ready"
  /\ nCalls < MaxCalls
  /\ LET run == RunSearch(adapters[i], world, max_results) IN
       /\ lastCall' = [inst |-> i, max_results |-> max_results,
                       requests |-> run.requests, result |-> run.result]
       /\ nRequests' = nRequests + Len(run.requests)
  /\ nCalls' = nCalls + 1
  /\ UNCHANGED << world, adapters >>

InitIn(W) ==
  /\ world \in W
  /\ adapters = [i \in Instances |-> Unconstructed]
  /\ lastCall = NoCall
  /\ nCalls = 0
  /\ nRequests = 0

Next ==
  \/ \E i \in Instances, q \in Queries, d \in DomainFilters : Construct(i, q, d)
  \/ \E i \in Instances, m \in 0..MaxResults : Search(i, m)

InitUrls    == InitIn(UrlWorlds)
InitAuth    == InitIn(AuthWorlds)
InitServer  == InitIn(ServerWorlds)

SpecUrls    == InitUrls /\ [][Next]_vars
SpecAuth    == InitAuth /\ [][Next]_vars
SpecServer  == InitServer /\ [][Next]_vars

(***************************************************************************)
(* Properties.                                                             *)
(***************************************************************************)
Called  == lastCall.inst # 0
Sent    == Len(lastCall.requests) > 0
Success == world.server.net = "ok" /\ world.server.status >= 200 /\ world.server.status < 300
EndsWithSlash(u) == u # <<>> /\ u[Len(u)] = "/"
Min(a, b) == IF a < b THEN a ELSE b

\* the credentials that are the base64 encoding of a 'username:password' text
ValidCredentials ==
  { B64Encode(Utf8Encode(t)) : t \in { x \in Texts : \E i \in 1..Len(x) : x[i] = Colon } }

\* what b64decode and decode("utf-8") make of a credential has no 'user:password' form
Rejected(c) ==
  LET raw == B64Decode(c) IN
  \/ ~raw.ok
  \/ ~Utf8Decode(raw.v, <<>>).ok
  \/ FirstColon(Utf8Decode(raw.v, <<>>).v, 1) = 0

\* C1 as stated: every SEARX_AUTH that is set and is not the base64 encoding
\* of a 'username:password' text, the empty one included, makes search fail
\* with the credential-format error before any request is sent.
C1_AnyInvalidCredentialFails ==
  (Called /\ world.SEARX_AUTH # PyNone /\ world.SEARX_AUTH.v \notin ValidCredentials)
    => (lastCall.result = Raised(CredentialFormatError) /\ lastCall.requests = <<>>)

\* C1 amended: a non-empty SEARX_AUTH that b64decode (which skips the
\* characters outside the base64 alphabet) cannot decode, whose bytes are not
\* UTF-8 or whose text has no colon makes search fail with the
\* credential-format error and no request is sent.
C1_RejectedCredentialFails ==
  (Called /\ world.SEARX_AUTH # PyNone /\ world.SEARX_AUTH.v # <<>>
          /\ Rejected(world.SEARX_AUTH.v))
    => (lastCall.result = Raised(CredentialFormatError) /\ lastCall.requests = <<>>)

C1_Witness ==
  /\ Called
  /\ world.SEARX_AUTH = PyStr(B64Encode(<<97>>))        \* base64("a"): no colon
  /\ lastCall.result = Raised(CredentialFormatError)
  /\ nRequests = 0

\* the items search makes of the first k entries of R
ExpectedItem(entry) ==
  [href |-> IF entry.m.url = Absent THEN JText("") ELSE entry.m.url,
   body |-> IF entry.m.content = Absent THEN JText("") ELSE entry.m.content]

\* C2: on a successful response whose body is a JSON object, search returns
\* min(max_results, n) items, the i-th made of url and content of R[i] with ""
\* for a missing field, in upstream order; without a results key, or with an
\* empty array, it returns the empty sequence.
C2_ResultsMapped ==
  (Called /\ Success /\ world.server.body.json /\ world.server.body.value.t = "dict")
    => LET r == world.server.body.value.m.results
           R == IF r = Absent THEN <<>> ELSE r.a
           k == Min(lastCall.max_results, Len(R))
       IN  (r = Absent \/ (r.t = "list" /\ \A i \in 1..k : R[i].t = "dict"))
             => /\ lastCall.result.ok
                /\ Len(lastCall.result.v) = k
                /\ \A i \in 1..k : lastCall.result.v[i] = ExpectedItem(R[i])

C2_Witness ==
  /\ Called
  /\ world.server = Response(200, TwoHits)
  /\ lastCall.max_results = 1
  /\ lastCall.result = Returned(<< [href |-> JText("https://a"), body |-> JText("A")] >>)

\* C3 as stated: every item search returns has href and body as strings,
\* also for entries whose url or content is null.
C3_ItemsAreStrings ==
  (Called /\ lastCall.result.ok)
    => \A i \in 1..Len(lastCall.result.v) :
         lastCall.result.v[i].href.t = "str" /\ lastCall.result.v[i].body.t = "str"

\* C4 as stated: a success status with a body that is not JSON makes search
\* fail with the response-parse error, not with the transport error.
C4_BadJsonIsParseError ==
  (Called /\ Sent /\ Success /\ ~world.server.body.json)
    => lastCall.result = Raised(ResponseFormatError)

\* C5 as stated: a network failure or any status outside 2xx makes search
\* fail with the transport error and return no items.
C5_NonSuccessIsTransportError ==
  (Called /\ Sent /\ ~Success) => lastCall.result = Raised(TransportError)

\* C5 amended: a network failure or a 4xx or 5xx status makes search fail
\* with the transport error and return no items, whatever the body holds.
C5_ErrorStatusIsTransportError ==
  (Called /\ Sent /\ (world.server.net = "fail"
                      \/ (world.server.status >= 400 /\ world.server.status < 600)))
    => lastCall.result = Raised(TransportError)

C5_Witness ==
  /\ Called
  /\ world.server = Response(404, TwoHits)
  /\ nRequests = 1
  /\ lastCall.result = Raised(TransportError)

\* C6: with SEARX_URL unset every construction fails with the configuration
\* error, whatever the query, the domain filter and SEARX_AUTH; no adapter
\* exists and no search is ever called.
C6_NoUrlNoAdapter ==
  world.SEARX_URL = PyNone
    => /\ \A i \in Instances :
            \/ adapters[i] = Unconstructed
            \/ adapters[i] = [state |-> "failed", error |-> ConfigurationError]
       /\ lastCall = NoCall /\ nCalls = 0 /\ nRequests = 0

C6_Witness ==
  /\ world.SEARX_URL = PyNone
  /\ world.SEARX_AUTH = AliceSecret
  /\ adapters[1].state = "failed"
  /\ adapters[2].state = "failed"

\* C7: the stored base URL is SEARX_URL with one "/" appended when it does
\* not end with "/", and SEARX_URL itself when it does; it always ends with
\* "/" and normalizing it again changes nothing.
C7_TrailingSlash ==
  \A i \in Instances : adapters[i].state = "ready"
    => LET u == world.SEARX_URL.v
           b == adapters[i].base_url
       IN  /\ EndsWithSlash(b)
           /\ EndsWithSlash(u) => b = u
           /\ ~EndsWithSlash(u) => (Len(b) = Len(u) + 1 /\ Sub(b, 1, Len(u)) = u)
           /\ get_searxng_url([SEARX_URL |-> PyStr(b)]) = Returned(b)

C7_Witness ==
  /\ adapters[1].state = "ready"
  /\ world.SEARX_URL = PyStr(<<"http:", "/", "/", "h", "/">>)
  /\ adapters[1].base_url = <<"http:", "/", "/", "h", "/">>
  /\ adapters[2].state = "unconstructed"

\* username and password texts and the SEARX_AUTH that encodes them
CredTable ==
  { [u |-> u, p |-> p, cred |-> B64Encode(Utf8Encode(u \o <<Colon>> \o p))] :
      u \in { x \in Texts : \A i \in 1..Len(x) : x[i] # Colon }, p \in Texts }

\* C8: with SEARX_AUTH the base64 of 'u:p', u without a colon, the request
\* carries the basic-auth pair (u, p), colons of p kept; with SEARX_AUTH
\* unset the request is sent without authentication.
C8_AuthTuple ==
  Called =>
    /\ \A e \in CredTable : world.SEARX_AUTH = PyStr(e.cred)
         => /\ Sent
            /\ lastCall.requests[1].auth = [username |-> e.u, password |-> e.p]
    /\ world.SEARX_AUTH = PyNone
         => (Sent /\ lastCall.requests[1].auth = PyNone)

C8_Witness ==
  /\ Called /\ Sent
  /\ world.SEARX_AUTH = PyStr(B64Encode(<<Colon, Colon>>))
  /\ lastCall.requests[1].auth = [username |-> <<>>, password |-> <<Colon>>]

\* a base URL with a host or a relative path, without query and without
\* empty path segments
PlainBase(b) ==
  LET hasScheme == b # <<>> /\ b[1] = "http:"
      rest == IF hasScheme THEN Tail(b) ELSE b
      path == IF Sub(rest, 1, 2) = <<"/", "/">> THEN Sub(rest, 3, Len(rest)) ELSE rest
  IN  /\ \A i \in 1..Len(rest) : rest[i] # "?"
      /\ IF Sub(rest, 1, 2) = <<"/", "/">> THEN Sub(rest, 3, 3) = <<"h">> ELSE ~hasScheme
      /\ \A i \in 1..(Len(path) - 1) : ~(path[i] = "/" /\ path[i + 1] = "/")

RequestShape ==
  (Called /\ Sent)
    => LET r    == lastCall.requests[1]
           self == adapters[lastCall.inst]
       IN  /\ r.method = "GET"
           /\ r.params = { <<"q", self.query>>, <<"format", "json">> }
           /\ r.headers = { <<"Accept", "application/json">> }
           /\ r.url[Len(r.url)] = "search"
           /\ PlainBase(self.base_url) => r.url = self.base_url \o <<"search">>

SameButDomains(a, b) ==
  /\ a.state = "ready" /\ b.state = "ready"
  /\ a.query = b.query /\ a.base_url = b.base_url /\ a.auth = b.auth

\* C9: every request is a GET to the base URL joined with "search", with
\* exactly the parameters q and format=json and the header Accept:
\* application/json, and two adapters that differ only in the domain filter
\* send the same request.
C9_RequestIgnoresDomains ==
  [][ /\ RequestShape'
      /\ (nCalls' = nCalls + 1 /\ Sent /\ Sent'
          /\ SameButDomains(adapters[lastCall.inst], adapters[lastCall'.inst]))
           => lastCall'.requests = lastCall.requests ]_vars

C9_Witness ==
  /\ nCalls = 2 /\ nRequests = 2
  /\ lastCall.inst = 2
  /\ SameButDomains(adapters[1], adapters[2])
  /\ adapters[1].query_domains # adapters[2].query_domains
  /\ PlainBase(adapters[2].base_url)

\* C10: a search call sends at most one request and never a second one after
\* a failure; it leaves the adapter and its configuration as they were, and
\* the next call on the same adapter sends the same request again.
C10_OneRequestPerCall ==
  [][ nCalls' = nCalls + 1
        => /\ nRequests' <= nRequests + 1
           /\ Len(lastCall'.requests) <= 1
           /\ adapters' = adapters
           /\ (Sent /\ lastCall'.inst = lastCall.inst)
                => (nRequests' = nRequests + 1
                    /\ lastCall'.requests = lastCall.requests) ]_vars

C10_Witness ==
  /\ nCalls = 2 /\ nRequests = 2
  /\ lastCall.result = Raised(TransportError)
  /\ world.server = Response(500, TwoHits)

====
